---- MODULE Spec2Model ----
(***************************************************************************)
(* A model of pygame_cards/game_app.py: the GameApp application shell, its *)
(* constructor, its logic loop (run_game_loop), the RenderThread render    *)
(* loop and the inner GuiInterface with its self-modifying render pass.    *)
(*                                                                         *)
(* The specifications share the variables and the action definitions:      *)
(*   CtorSpec  GameApp.__init__ run statement by statement on a settings   *)
(*             file drawn from Files, followed by the first accesses of    *)
(*             the "gui" block (init_game, show_label, show_button);       *)
(*   Spec      the constructed application (Init is the state __init__     *)
(*             leaves for DefaultDoc) driven through execute() or through  *)
(*             init_game / start_render_thread / run_game_loop, with the   *)
(*             render thread interleaved at statement granularity.         *)
(*   FairSpec  is Spec with the fairness a thread scheduler gives to the   *)
(*             two threads.                                                *)
(***************************************************************************)
EXTENDS Integers, Sequences, FiniteSets, TLC

(***************************************************************************)
(* Bounds of the model.                                                    *)
(***************************************************************************)
\* longest list pygame.event.get() returns in one call
MaxBatch == 2
\* number of GUI elements show_label / show_button create in one run
MaxElems == 2

(***************************************************************************)
(* Values.                                                                 *)
(***************************************************************************)
\* Python's None, and a value that is not None
None == <<>>
Some(v) == <<v>>

Titles == {"Solitaire", "Crazy Eights"}
Colors == {<<0, 128, 0>>, <<0, 0, 0>>}
Sizes == {<<800, 600>>, <<640, 480>>}

\* keys of the settings document: the two blocks and their members
WindowKeys == {"title", "background_color", "size"}
GuiKeys == {"notification_label", "done_button"}
Keys == {"window", "gui"} \cup WindowKeys \cup GuiKeys

DefaultDoc ==
    [keys |-> Keys, title |-> "Solitaire", background_color |-> <<0, 128, 0>>,
     size |-> <<800, 600>>]

\* a JSON object: the keys it has and the values of the window members; a
\* member is present only inside its block, an absent member has no value
\* (its field is pinned to DefaultDoc's so that equal documents are equal)
Documents ==
    {d \in [keys : SUBSET Keys, title : Titles, background_color : Colors, size : Sizes] :
        /\ (d.keys \cap WindowKeys # {}) => "window" \in d.keys
        /\ (d.keys \cap GuiKeys # {}) => "gui" \in d.keys
        /\ "title" \notin d.keys => d.title = DefaultDoc.title
        /\ "background_color" \notin d.keys => d.background_color = DefaultDoc.background_color
        /\ "size" \notin d.keys => d.size = DefaultDoc.size}

\* what open(path) / json.load find: no readable file, text that is not JSON,
\* the JSON value null, or a JSON object
Files ==
    {[kind |-> k, doc |-> DefaultDoc] : k \in {"unreadable", "malformed", "null"}}
    \cup {[kind |-> "object", doc |-> d] : d \in Documents}

\* pygame event types: the three process_events tests for, and any other
EventTypes == {"QUIT", "MOUSEBUTTONUP", "MOUSEBUTTONDOWN", "KEYDOWN"}

RECURSIVE SeqsUpTo(_, _)
SeqsUpTo(S, n) ==
    IF n = 0 THEN {<<>>}
    ELSE LET shorter == SeqsUpTo(S, n - 1)
         IN shorter \cup {Append(s, x) : s \in {t \in shorter : Len(t) = n - 1}, x \in S}

\* the lists pygame.event.get() may return
Batches == SeqsUpTo(EventTypes, MaxBatch)

ElemIds == 1..MaxElems

\* the methods GameApp declares with @abc.abstractmethod
Hooks == {"load_game_settings_from_json", "process_mouse_event", "build_game_objects"}

VARIABLES
    implemented,       \* the abstract hooks the application's class overrides
    json_file,         \* the file at json_name (input of __init__)
    settings_json,     \* globals.settings_json: None or Some(document)
    title,             \* GameApp.title: None or Some(title)
    background_color,  \* GameApp.background_color
    size,              \* GameApp.size
    hookCalled,        \* load_game_settings_from_json has been called
    pygameInit,        \* pygame.init() and pygame.font.init() have run
    caption,           \* the window caption: None or Some(title)
    screen,            \* GameApp.screen: None or Some(size of the display mode)
    clock,             \* GameApp.clock: "none", "new", or the loop ("logic",
                       \* "render") whose tick it served last
    constructed,       \* __init__ has returned
    stopped,           \* GameApp.stopped
    gui_interface,     \* GameApp.gui_interface: None or Some("GuiInterface")
    game_controller,   \* GameApp.game_controller: None or Some("controller")
    gui_list,          \* GuiInterface.gui_list: sequence of element ids
    created,           \* the elements show_label / show_button have built
    expired,           \* the elements whose expired attribute is True
    mainPc,            \* position of the main (logic) thread
    error,             \* exception that ended the main thread, or "none"
    mode,              \* how the application is driven: "none", "execute", "manual"
    batch,             \* the events of the list pygame.event.get() returned
                       \* that the for loop has not taken yet, in order
    calls,             \* flags of the process_mouse_event calls made for the
                       \* event the for loop took last
    logicCalls,        \* execute_game_logic calls of this tick
    gameCalls,         \* game_controller.execute_game calls of this tick
    cmIdx,             \* check_mouse: 0 outside, else next index of its iterator
    cmStart,           \* gui_list when the last check_mouse pass of this
                       \* process_mouse_event call began, None before any
    forwarded,         \* elements g.check_mouse was called on in that pass
    rtPc,              \* position of the render thread
    rIdx,              \* GuiInterface.render: next index of its list iterator
    frame,             \* steps the current render iteration has performed
    passStart,         \* gui_list when the current GuiInterface.render began
    expiredAtStart,    \* expired when the current GuiInterface.render began
    drawn,             \* elements g.render() was called on in this pass
    passClean,         \* no append or expiry happened during this pass
    removals,          \* element id -> times gui_list.remove took it out
    passesAfterStop,   \* render iterations completed after stopped was set
    itersAfterStop     \* render iterations begun after stopped was set

ctorVars ==
    <<implemented, json_file, settings_json, title, background_color, size, hookCalled,
      pygameInit, caption, screen, clock, constructed>>
appVars == <<stopped, gui_interface, game_controller>>
guiVars == <<gui_list, created, expired>>
cmHist == <<cmStart, forwarded>>
mainVars == <<mainPc, error, mode, batch, calls, logicCalls, gameCalls, cmIdx, cmHist>>
renderVars == <<rtPc, rIdx, frame, passStart, expiredAtStart, drawn, passClean>>
histVars == <<removals, passesAfterStop, itersAfterStop>>
vars == <<ctorVars, appVars, guiVars, mainVars, renderVars, histVars>>

(***************************************************************************)
(* Initial states.                                                         *)
(***************************************************************************)
\* what every run starts with outside the constructor's own fields
Fresh ==
    /\ gui_list = <<>>
    /\ created = {}
    /\ expired = {}
    /\ error = "none"
    /\ mode = "none"
    /\ batch = <<>>
    /\ calls = <<>>
    /\ logicCalls = 0
    /\ gameCalls = 0
    /\ cmIdx = 0
    /\ cmStart = None
    /\ forwarded = <<>>
    /\ rIdx = 0
    /\ frame = <<>>
    /\ passStart = <<>>
    /\ expiredAtStart = {}
    /\ drawn = {}
    /\ passClean = TRUE
    /\ removals = [e \in ElemIds |-> 0]
    /\ passesAfterStop = 0
    /\ itersAfterStop = 0

\* the class of the application is called with json_name: no object exists
\* yet (the window fields hold the None of lines 74-76, and stopped,
\* gui_interface and game_controller the values lines 89-91 will give them;
\* nothing reads them before)
CtorInit ==
    /\ implemented \in SUBSET Hooks
    /\ json_file \in Files
    /\ settings_json = None
    /\ title = None
    /\ background_color = None
    /\ size = None
    /\ hookCalled = FALSE
    /\ pygameInit = FALSE
    /\ caption = None
    /\ screen = None
    /\ clock = "none"
    /\ constructed = FALSE
    /\ stopped = FALSE
    /\ gui_interface = None
    /\ game_controller = None
    /\ mainPc = "instantiate"
    /\ rtPc = "none"
    /\ Fresh

\* the state __init__ returns in for a settings file holding DefaultDoc
Init ==
    /\ implemented = Hooks
    /\ json_file = [kind |-> "object", doc |-> DefaultDoc]
    /\ settings_json = Some(DefaultDoc)
    /\ title = Some(DefaultDoc.title)
    /\ background_color = Some(DefaultDoc.background_color)
    /\ size = Some(DefaultDoc.size)
    /\ hookCalled = TRUE
    /\ pygameInit = TRUE
    /\ caption = Some(DefaultDoc.title)
    /\ screen = Some(DefaultDoc.size)
    /\ clock = "new"
    /\ constructed = TRUE
    /\ stopped = FALSE
    /\ gui_interface = None
    /\ game_controller = None
    /\ mainPc = "idle"
    /\ rtPc = "new"
    /\ Fresh

(***************************************************************************)
(* GameApp.__init__, one action per statement.                             *)
(***************************************************************************)
\* an exception nothing catches ends the main thread
Raise(e) ==
    /\ mainPc' = "raised"
    /\ error' = e

Goto(pc) ==
    /\ mainPc' = pc
    /\ error' = error

restOfMain == <<mode, batch, calls, logicCalls, gameCalls, cmIdx, cmHist>>
notCtor == <<appVars, guiVars, restOfMain, renderVars, histVars>>

\* a lookup that falls back to a default instead of raising
HasMemberNeverRaises(d, block, member) == TRUE

\* a lookup that raises for a missing block only
HasMemberBlockOnly(d, block, member) == block \in d.keys

\* d[block][member] of load_settings_from_json: KeyError unless both exist
HasMember(d, block, member) == block \in d.keys /\ member \in d.keys

\* a lookup that answers from built-in defaults, not from the document
MemberOfDefaults(d, member) == DefaultDoc[member]

\* the value d["window"][member]
Member(d, member) == d[member]

\* a metaclass under which every class can be instantiated
InstantiableAlways(impl) == TRUE

\* abc.ABCMeta: a class can be instantiated only if none of the abstract
\* methods it inherits is left without an override
Instantiable(impl) == Hooks \ impl = {}

\* the call of the class: object creation under abc.ABCMeta raises TypeError
\* before __init__ is entered, or __init__ starts (lines 74-76)
instantiate ==
    /\ mainPc = "instantiate"
    /\ IF Instantiable(implemented) THEN Goto("load_json") ELSE Raise("TypeError")
    /\ UNCHANGED <<ctorVars, notCtor>>

\* globals.settings_json = self.load_json(json_name)
load_json ==
    /\ mainPc = "load_json"
    /\ IF json_file.kind = "unreadable" THEN
           Raise("IOError") /\ UNCHANGED settings_json
       ELSE IF json_file.kind = "malformed" THEN
           Raise("ValueError") /\ UNCHANGED settings_json
       ELSE IF json_file.kind = "null" THEN
           Goto("check_none") /\ settings_json' = None
       ELSE
           Goto("check_none") /\ settings_json' = Some(json_file.doc)
    /\ UNCHANGED <<implemented, json_file, title, background_color, size, hookCalled,
                   pygameInit, caption, screen, clock, constructed, rtPc>>
    /\ UNCHANGED <<appVars, guiVars, restOfMain, rIdx, frame, passStart,
                   expiredAtStart, drawn, passClean, histVars>>

\* a test that takes every loaded value for a document
IsNoneNever(v) == FALSE

\* globals.settings_json is None
IsNone(v) == v = None

\* if globals.settings_json is None: raise ValueError(...)
CheckNone ==
    /\ mainPc = "check_none"
    /\ IF IsNone(settings_json) THEN Raise("ValueError") ELSE Goto("load_title")
    /\ UNCHANGED <<ctorVars, notCtor>>

\* self.title = globals.settings_json["window"]["title"]
LoadTitle ==
    /\ mainPc = "load_title"
    /\ LET d == settings_json[1] IN
       IF HasMember(d, "window", "title")
       THEN Goto("load_background_color") /\ title' = Some(Member(d, "title"))
       ELSE Raise("KeyError") /\ UNCHANGED title
    /\ UNCHANGED <<implemented, json_file, settings_json, background_color, size, hookCalled,
                   pygameInit, caption, screen, clock, constructed>>
    /\ UNCHANGED notCtor

\* self.background_color = globals.settings_json["window"]['background_color']
LoadBackgroundColor ==
    /\ mainPc = "load_background_color"
    /\ LET d == settings_json[1] IN
       IF HasMember(d, "window", "background_color")
       THEN Goto("load_size") /\ background_color' = Some(Member(d, "background_color"))
       ELSE Raise("KeyError") /\ UNCHANGED background_color
    /\ UNCHANGED <<implemented, json_file, settings_json, title, size, hookCalled,
                   pygameInit, caption, screen, clock, constructed>>
    /\ UNCHANGED notCtor

\* self.size = globals.settings_json["window"]["size"]
LoadSize ==
    /\ mainPc = "load_size"
    /\ LET d == settings_json[1] IN
       IF HasMember(d, "window", "size")
       THEN Goto("load_game_settings") /\ size' = Some(Member(d, "size"))
       ELSE Raise("KeyError") /\ UNCHANGED size
    /\ UNCHANGED <<implemented, json_file, settings_json, title, background_color, hookCalled,
                   pygameInit, caption, screen, clock, constructed>>
    /\ UNCHANGED notCtor

\* self.load_game_settings_from_json(): the subclass hook
load_game_settings_from_json ==
    /\ mainPc = "load_game_settings"
    /\ hookCalled' = TRUE
    /\ Goto("pygame_init")
    /\ UNCHANGED <<implemented, json_file, settings_json, title, background_color, size,
                   pygameInit, caption, screen, clock, constructed>>
    /\ UNCHANGED notCtor

\* pygame.init(); pygame.font.init()
PygameInit ==
    /\ mainPc = "pygame_init"
    /\ pygameInit' = TRUE
    /\ Goto("set_caption")
    /\ UNCHANGED <<implemented, json_file, settings_json, title, background_color, size,
                   hookCalled, caption, screen, clock, constructed>>
    /\ UNCHANGED notCtor

\* pygame.display.set_caption(self.title)
SetCaption ==
    /\ mainPc = "set_caption"
    /\ caption' = title
    /\ Goto("set_mode")
    /\ UNCHANGED <<implemented, json_file, settings_json, title, background_color, size,
                   hookCalled, pygameInit, screen, clock, constructed>>
    /\ UNCHANGED notCtor

\* self.screen = pygame.display.set_mode(self.size); self.screen.fill(...)
SetMode ==
    /\ mainPc = "set_mode"
    /\ screen' = size
    /\ Goto("make_clock")
    /\ UNCHANGED <<implemented, json_file, settings_json, title, background_color, size,
                   hookCalled, pygameInit, caption, clock, constructed>>
    /\ UNCHANGED notCtor

\* self.clock = pygame.time.Clock()
MakeClock ==
    /\ mainPc = "make_clock"
    /\ clock' = "new"
    /\ Goto("make_render_thread")
    /\ UNCHANGED <<implemented, json_file, settings_json, title, background_color, size,
                   hookCalled, pygameInit, caption, screen, constructed>>
    /\ UNCHANGED notCtor

\* self.render_thread = RenderThread(self): created, not started
MakeRenderThread ==
    /\ mainPc = "make_render_thread"
    /\ rtPc' = "new"
    /\ Goto("init_flags")
    /\ UNCHANGED <<ctorVars, appVars, guiVars, restOfMain, histVars>>
    /\ UNCHANGED <<rIdx, frame, passStart, expiredAtStart, drawn, passClean>>

\* self.stopped = False; self.gui_interface = None; self.game_controller = None
InitFlags ==
    /\ mainPc = "init_flags"
    /\ stopped' = FALSE
    /\ gui_interface' = None
    /\ game_controller' = None
    /\ constructed' = TRUE
    /\ Goto("idle")
    /\ UNCHANGED <<implemented, json_file, settings_json, title, background_color, size,
                   hookCalled, pygameInit, caption, screen, clock>>
    /\ UNCHANGED <<guiVars, restOfMain, renderVars, histVars>>

\* load_settings_from_json
load_settings_from_json ==
    LoadTitle \/ LoadBackgroundColor \/ LoadSize \/ load_game_settings_from_json

Ctor ==
    \/ instantiate
    \/ load_json
    \/ CheckNone
    \/ load_settings_from_json
    \/ PygameInit
    \/ SetCaption
    \/ SetMode
    \/ MakeClock
    \/ MakeRenderThread
    \/ InitFlags

(***************************************************************************)
(* The operations of the constructed application, on the main thread.      *)
(***************************************************************************)
passVars == <<rIdx, frame, passStart, expiredAtStart, drawn>>

\* a change of gui_list or of an expired flag made while GuiInterface.render
\* is iterating: the pass is no longer a pass over one list
Disturb == IF rtPc = "gui_render" THEN FALSE ELSE passClean

\* where init_game and start_render_thread return to
Return(next) == IF mode = "execute" THEN Goto(next) ELSE Goto("idle")

\* an execute() that starts the render thread before init_game()
executeStartsThreadFirst ==
    /\ mainPc = "idle"
    /\ mode = "none"
    /\ mode' = "execute"
    /\ rtPc' = "check"
    /\ Goto("init_gui")
    /\ UNCHANGED <<ctorVars, appVars, guiVars, passVars, passClean, histVars>>
    /\ UNCHANGED <<batch, calls, logicCalls, gameCalls, cmIdx, cmHist>>

\* execute(): init_game, start_render_thread, run_game_loop in this order
execute ==
    /\ mainPc = "idle"
    /\ mode = "none"
    /\ mode' = "execute"
    /\ Goto("init_gui")
    /\ UNCHANGED <<ctorVars, appVars, guiVars, renderVars, histVars>>
    /\ UNCHANGED <<batch, calls, logicCalls, gameCalls, cmIdx, cmHist>>

\* a caller that uses the exposed operations itself calls init_game()
init_game ==
    /\ mainPc = "idle"
    /\ mode # "execute"
    /\ gui_interface = None
    /\ mode' = "manual"
    /\ Goto("init_gui")
    /\ UNCHANGED <<ctorVars, appVars, guiVars, renderVars, histVars>>
    /\ UNCHANGED <<batch, calls, logicCalls, gameCalls, cmIdx, cmHist>>

\* self.gui_interface = GameApp.GuiInterface(globals.settings_json["gui"], ...)
init_gui ==
    /\ mainPc = "init_gui"
    /\ IF "gui" \in settings_json[1].keys
       THEN /\ gui_interface' = Some("GuiInterface")
            /\ gui_list' = <<>>
            /\ Goto("build_game_objects")
       ELSE /\ Raise("KeyError")
            /\ UNCHANGED <<gui_interface, gui_list>>
    /\ UNCHANGED <<ctorVars, stopped, game_controller, created, expired, restOfMain,
                   renderVars, histVars>>

\* the subclass code that runs on the main thread and may use the GUI
SubclassCode == {"build_game_objects", "process_mouse_event"}

\* gui.Button objects have the even ids, gui.Title objects the odd ones
IsButton(e) == e % 2 = 0

\* the ids left for an element built from gui_json[key]
FreeIds(key) == {e \in ElemIds \ created : IsButton(e) <=> key = "done_button"}

\* the element a show_label / show_button call creates
NewElem(key) == CHOOSE e \in FreeIds(key) : \A f \in FreeIds(key) : e <= f

\* gui_list.append(element built from gui_json[key])
Show(key) ==
    /\ mainPc \in SubclassCode
    /\ cmIdx = 0
    /\ gui_interface # None
    /\ FreeIds(key) # {}
    /\ IF key \in settings_json[1].keys
       THEN /\ gui_list' = Append(gui_list, NewElem(key))
            /\ created' = created \cup {NewElem(key)}
            /\ passClean' = Disturb
            /\ Goto(mainPc)
       ELSE /\ Raise("KeyError")
            /\ UNCHANGED <<gui_list, created, passClean>>
    /\ UNCHANGED <<ctorVars, appVars, expired, restOfMain, rtPc, passVars, histVars>>

show_label == Show("notification_label")

show_button == Show("done_button")

\* GuiInterface.hide_button(): pass
hide_button ==
    /\ mainPc \in SubclassCode
    /\ cmIdx = 0
    /\ gui_interface # None
    /\ UNCHANGED vars

\* build_game_objects() returns; the subclass has set a game controller or not
build_game_objects ==
    /\ mainPc = "build_game_objects"
    /\ \E c \in {None, Some("controller")} : game_controller' = c
    /\ Return("start_render_thread")
    /\ UNCHANGED <<ctorVars, stopped, gui_interface, guiVars, restOfMain,
                   renderVars, histVars>>

\* a caller that uses the exposed operations itself calls start_render_thread()
call_start_render_thread ==
    /\ mainPc = "idle"
    /\ mode # "execute"
    /\ mode' = "manual"
    /\ Goto("start_render_thread")
    /\ UNCHANGED <<ctorVars, appVars, guiVars, renderVars, histVars>>
    /\ UNCHANGED <<batch, calls, logicCalls, gameCalls, cmIdx, cmHist>>

\* self.render_thread.start(): a thread object starts once
start_render_thread ==
    /\ mainPc = "start_render_thread"
    /\ IF rtPc = "new"
       THEN rtPc' = "check" /\ Return("run_game_loop")
       ELSE Raise("RuntimeError") /\ UNCHANGED rtPc
    /\ UNCHANGED <<ctorVars, appVars, guiVars, restOfMain, passVars, passClean,
                   histVars>>

\* a caller that uses the exposed operations itself calls run_game_loop()
call_run_game_loop ==
    /\ mainPc = "idle"
    /\ mode # "execute"
    /\ mode' = "manual"
    /\ Goto("run_game_loop")
    /\ UNCHANGED <<ctorVars, appVars, guiVars, renderVars, histVars>>
    /\ UNCHANGED <<batch, calls, logicCalls, gameCalls, cmIdx, cmHist>>

\* while 1: self.clock.tick(60)
run_game_loop ==
    /\ mainPc = "run_game_loop"
    /\ clock' = "logic"
    /\ logicCalls' = 0
    /\ gameCalls' = 0
    /\ Goto("process_events")
    /\ UNCHANGED <<implemented, json_file, settings_json, title, background_color, size,
                   hookCalled, pygameInit, caption, screen, constructed>>
    /\ UNCHANGED <<appVars, guiVars, mode, batch, calls, cmIdx, cmHist, renderVars,
                   histVars>>

\* for event in pygame.event.get(): the queue is drained into one list
process_events ==
    /\ mainPc = "process_events"
    /\ \E b \in Batches : batch' = b
    /\ calls' = <<>>
    /\ Goto("dispatch")
    /\ UNCHANGED <<ctorVars, appVars, guiVars, mode, logicCalls, gameCalls,
                   cmIdx, cmHist, renderVars, histVars>>

\* a test that takes a key press for a request to quit as well
IsQuitOrKey(type) == type \in {"QUIT", "KEYDOWN"}

\* event.type == pygame.QUIT
IsQuit(type) == type = "QUIT"

\* a dispatch that passes the flags the wrong way round
DownFlagSwapped(type) == type = "MOUSEBUTTONUP"

\* the flag process_events passes for a mouse event
DownFlag(type) == type = "MOUSEBUTTONDOWN"

\* one turn of the for loop: the iterator yields the next event of the list
\* and the if / elif chain on event.type runs, or the list is exhausted and
\* process_events returns
dispatch ==
    /\ mainPc = "dispatch"
    /\ IF batch # <<>>
       THEN LET type == Head(batch) IN
            /\ batch' = Tail(batch)
            /\ IF IsQuit(type)
               THEN stopped' = TRUE /\ Goto("join") /\ calls' = <<>>
               ELSE IF type = "MOUSEBUTTONUP" \/ type = "MOUSEBUTTONDOWN"
               THEN /\ calls' = <<DownFlag(type)>>
                    /\ Goto("process_mouse_event")
                    /\ UNCHANGED stopped
               ELSE Goto("dispatch") /\ calls' = <<>> /\ UNCHANGED stopped
       ELSE /\ Goto("execute_game_logic")
            /\ calls' = <<>>
            /\ UNCHANGED <<stopped, batch>>
    /\ UNCHANGED <<ctorVars, gui_interface, game_controller, guiVars, mode,
                   logicCalls, gameCalls, cmIdx, cmHist, renderVars, histVars>>

\* a join that returns at once
JoinDoesNotWait == TRUE

\* what Thread.join() waits for: the thread's run() has returned or has been
\* ended by an exception
ThreadTerminated == rtPc \in {"done", "failed"}

\* self.render_thread.join(): returns when the thread has terminated, and
\* raises for a thread that was never started
join ==
    /\ mainPc = "join"
    /\ rtPc = "new" \/ ThreadTerminated
    /\ IF rtPc = "new" THEN Raise("RuntimeError") ELSE Goto("exit")
    /\ UNCHANGED <<ctorVars, appVars, guiVars, restOfMain, renderVars, histVars>>

\* a sys.exit() that returns to the for loop
exitReturns ==
    /\ mainPc = "exit"
    /\ Goto("dispatch")
    /\ UNCHANGED <<ctorVars, appVars, guiVars, restOfMain, renderVars, histVars>>

\* sys.exit()
exit ==
    /\ mainPc = "exit"
    /\ Goto("exited")
    /\ UNCHANGED <<ctorVars, appVars, guiVars, restOfMain, renderVars, histVars>>

\* the index the list iterator reads next after the loop body ran on index i
NextIndex(i) == i + 1

\* GuiInterface.check_mouse is called by the subclass's process_mouse_event:
\* the for loop creates its iterator over gui_list
check_mouse ==
    /\ mainPc = "process_mouse_event"
    /\ gui_interface # None
    /\ cmIdx = 0
    /\ cmIdx' = 1
    /\ cmStart' = Some(gui_list)
    /\ forwarded' = <<>>
    /\ Goto(mainPc)
    /\ UNCHANGED <<ctorVars, appVars, guiVars, mode, batch, calls,
                   logicCalls, gameCalls, renderVars, histVars>>

\* one turn of for g in self.gui_list: g.check_mouse(pygame.mouse.get_pos(),
\* down) on the element at the iterator's index, or the index has passed the
\* end of the list as it is then and check_mouse returns
check_mouse_step ==
    /\ mainPc = "process_mouse_event"
    /\ cmIdx > 0
    /\ IF cmIdx <= Len(gui_list)
       THEN /\ forwarded' = Append(forwarded, gui_list[cmIdx])
            /\ cmIdx' = NextIndex(cmIdx)
       ELSE /\ cmIdx' = 0
            /\ UNCHANGED forwarded
    /\ Goto(mainPc)
    /\ UNCHANGED <<ctorVars, appVars, guiVars, mode, batch, calls, cmStart,
                   logicCalls, gameCalls, renderVars, histVars>>

\* the subclass's process_mouse_event(down) returns
process_mouse_event ==
    /\ mainPc = "process_mouse_event"
    /\ cmIdx = 0
    /\ cmStart' = None
    /\ forwarded' = <<>>
    /\ Goto("dispatch")
    /\ UNCHANGED <<ctorVars, appVars, guiVars, mode, batch, calls, cmIdx,
                   logicCalls, gameCalls, renderVars, histVars>>

\* a test that takes the controller for set
HasControllerAlways == TRUE

\* self.game_controller is not None
HasController == game_controller # None

\* the GUI drawn only inside the controller's branch
HasGuiInsideControllerBranch == gui_interface # None /\ game_controller # None

\* self.gui_interface is not None
HasGui == gui_interface # None

\* if self.game_controller is not None: self.game_controller.execute_game()
execute_game_logic ==
    /\ mainPc = "execute_game_logic"
    /\ logicCalls' = logicCalls + 1
    /\ gameCalls' = IF HasController THEN gameCalls + 1 ELSE gameCalls
    /\ Goto("loop_end")
    /\ UNCHANGED <<ctorVars, appVars, guiVars, mode, batch, calls, cmIdx, cmHist,
                   renderVars, histVars>>

\* the end of the loop body (#self.render()): back to while 1
loop_end ==
    /\ mainPc = "loop_end"
    /\ Goto("run_game_loop")
    /\ UNCHANGED <<ctorVars, appVars, guiVars, restOfMain, renderVars, histVars>>

\* an element marks itself expired
Expire ==
    /\ mainPc \notin {"exited"}
    /\ \E e \in ElemIds :
        /\ e \in created
        /\ e \notin expired
        /\ expired' = expired \cup {e}
    /\ passClean' = Disturb
    /\ UNCHANGED <<ctorVars, appVars, gui_list, created, mainVars, rtPc, passVars,
                   histVars>>

(***************************************************************************)
(* RenderThread.run, GameApp.render and GuiInterface.render, on the render *)
(* thread.                                                                 *)
(***************************************************************************)
notRender == <<ctorVars, appVars, mainVars>>

\* a loop that never looks at the flag
RunForever == TRUE

\* while not self.app.stopped
KeepRunning == ~stopped

\* the loop test of RenderThread.run: one more iteration, or the thread ends
run ==
    /\ rtPc = "check"
    /\ IF KeepRunning
       THEN /\ rtPc' = "tick"
            /\ itersAfterStop' = IF stopped THEN itersAfterStop + 1 ELSE itersAfterStop
       ELSE /\ rtPc' = "done"
            /\ UNCHANGED itersAfterStop
    /\ UNCHANGED <<notRender, guiVars, passVars, passClean, removals, passesAfterStop>>

\* self.app.clock.tick(300)
run_tick ==
    /\ rtPc = "tick"
    /\ clock' = "render"
    /\ frame' = <<>>
    /\ rtPc' = "render"
    /\ UNCHANGED <<implemented, json_file, settings_json, title, background_color, size,
                   hookCalled, pygameInit, caption, screen, constructed>>
    /\ UNCHANGED <<appVars, mainVars, guiVars, rIdx, passStart, expiredAtStart,
                   drawn, passClean, histVars>>

\* GameApp.render: pygame.draw.rect(self.screen, self.background_color, ...)
render ==
    /\ rtPc = "render"
    /\ frame' = Append(frame, "clear")
    /\ rtPc' = "objects"
    /\ UNCHANGED <<notRender, guiVars, rIdx, passStart, expiredAtStart, drawn,
                   passClean, histVars>>

\* if self.game_controller is not None: ...render_objects(self.screen)
render_objects ==
    /\ rtPc = "objects"
    /\ frame' = IF HasController THEN Append(frame, "objects") ELSE frame
    /\ rtPc' = "gui"
    /\ UNCHANGED <<notRender, guiVars, rIdx, passStart, expiredAtStart, drawn,
                   passClean, histVars>>

\* if self.gui_interface is not None: self.gui_interface.render()
\* (the call creates the iterator of for g in self.gui_list)
render_gui ==
    /\ rtPc = "gui"
    /\ IF HasGui
       THEN /\ frame' = Append(frame, "gui")
            /\ rIdx' = 1
            /\ passStart' = gui_list
            /\ expiredAtStart' = expired
            /\ rtPc' = "gui_render"
       ELSE /\ rtPc' = "flip"
            /\ UNCHANGED <<frame, rIdx, passStart, expiredAtStart>>
    /\ drawn' = {}
    /\ passClean' = TRUE
    /\ UNCHANGED <<notRender, guiVars, histVars>>

\* a removal by position that always takes the first element
RemoveFirst(list, g) == Tail(list)

\* list.remove(g): the list without its first element equal to g
RECURSIVE Remove(_, _)
Remove(list, g) ==
    IF list = <<>> THEN <<>>
    ELSE IF Head(list) = g THEN Tail(list)
    ELSE <<Head(list)>> \o Remove(Tail(list), g)

\* one turn of for g in self.gui_list: the iterator yields gui_list[rIdx] and
\* advances; an expired g is removed from the list being iterated and skipped
\* by continue, any other g is drawn; the loop ends when the index passes the
\* end of the list as it is then
GuiInterface_render ==
    /\ rtPc = "gui_render"
    /\ IF rIdx <= Len(gui_list)
       THEN LET g == gui_list[rIdx] IN
            /\ rIdx' = NextIndex(rIdx)
            /\ IF g \in expired
               THEN /\ gui_list' = Remove(gui_list, g)
                    /\ removals' = [removals EXCEPT ![g] = @ + 1]
                    /\ UNCHANGED drawn
               ELSE /\ drawn' = drawn \cup {g}
                    /\ UNCHANGED <<gui_list, removals>>
            /\ UNCHANGED rtPc
       ELSE /\ rtPc' = "flip"
            /\ UNCHANGED <<rIdx, gui_list, removals, drawn>>
    /\ UNCHANGED <<notRender, created, expired, frame, passStart, expiredAtStart,
                   passClean, passesAfterStop, itersAfterStop>>

\* pygame.display.flip(): the iteration is complete
flip ==
    /\ rtPc = "flip"
    /\ frame' = Append(frame, "flip")
    /\ passesAfterStop' = IF stopped THEN passesAfterStop + 1 ELSE passesAfterStop
    /\ rIdx' = 0
    /\ passStart' = <<>>
    /\ expiredAtStart' = {}
    /\ drawn' = {}
    /\ passClean' = TRUE
    /\ rtPc' = "check"
    /\ UNCHANGED <<notRender, guiVars, removals, itersAfterStop>>

\* GameApp.render or pygame.display.flip() raises (pygame.error, an error in
\* a controller's or an element's drawing): nothing in run() catches it, the
\* exception ends the render thread and no other thread
raise_in_render ==
    /\ rtPc \in {"render", "objects", "gui", "gui_render", "flip"}
    /\ rtPc' = "failed"
    /\ rIdx' = 0
    /\ frame' = <<>>
    /\ passStart' = <<>>
    /\ expiredAtStart' = {}
    /\ drawn' = {}
    /\ passClean' = TRUE
    /\ UNCHANGED <<notRender, guiVars, histVars>>

(***************************************************************************)
(* The specifications.                                                     *)
(***************************************************************************)
\* the caller of the exposed operations
Caller == execute \/ init_game \/ call_start_render_thread \/ call_run_game_loop

\* the subclass's use of the GUI interface
Gui == show_label \/ show_button \/ hide_button \/ check_mouse \/ check_mouse_step

\* the main thread
Main ==
    \/ Caller
    \/ init_gui
    \/ build_game_objects
    \/ start_render_thread
    \/ run_game_loop
    \/ process_events
    \/ dispatch
    \/ join
    \/ exit
    \/ process_mouse_event
    \/ execute_game_logic
    \/ loop_end
    \/ Gui

\* the render thread
Render ==
    \/ run
    \/ run_tick
    \/ render
    \/ render_objects
    \/ render_gui
    \/ GuiInterface_render
    \/ flip
    \/ raise_in_render

Next == Main \/ Render \/ Expire

Spec == Init /\ [][Next]_vars

\* both threads are scheduled again and again
FairSpec == Spec /\ WF_vars(Main) /\ WF_vars(Render)

\* construction, then the first accesses of the gui block
CtorNext ==
    \/ Ctor
    \/ init_game
    \/ init_gui
    \/ show_label
    \/ show_button
    \/ build_game_objects

CtorSpec == CtorInit /\ [][CtorNext]_vars

\* the constructor run on DefaultDoc ends in the initial state of Spec
CtorEstablishesInit ==
    (constructed /\ mainPc = "idle" /\ mode = "none" /\ json_file.doc = DefaultDoc) => Init

(***************************************************************************)
(* Quit: stop flag, join, exit.                                            *)
(***************************************************************************)
\* the render thread is inside an iteration of its loop (tick / render / flip)
InIteration == rtPc \in {"tick", "render", "objects", "gui", "gui_render", "flip"}

\* the render thread has been started and has ended
ThreadOver == rtPc = "done" \/ rtPc = "failed"

\* C1: on a QUIT event process_events sets stopped, then joins the render
\* thread, then exits, in this order: the main thread is at or past the join
\* only with stopped set, and at or past sys.exit() only with the render
\* thread terminated, so the exit never happens while the render thread is
\* inside an iteration; and in an execution started through execute(), with
\* both threads scheduled fairly, a QUIT that has been met leads to the exit.
C1_QuitJoinExit ==
    /\ [](mainPc \in {"join", "exit", "exited"} => stopped)
    /\ [](mainPc \in {"exit", "exited"} => ThreadOver /\ ~InIteration)
    /\ ((mode = "execute" /\ mainPc = "join") ~> (mainPc = "exited"))

\* the process has exited after a QUIT that was met while the render thread
\* was inside an iteration, which the join let it finish
C1_Witness ==
    /\ mode = "execute"
    /\ mainPc = "exited"
    /\ passesAfterStop = 1

\* C2: after the stop flag is set at most one render iteration completes (the
\* one that had passed its test of stopped), no iteration begins, and the
\* started render thread terminates.
C2_StopsWithinOneIteration ==
    /\ [](passesAfterStop <= 1 /\ itersAfterStop = 0)
    /\ ((stopped /\ rtPc # "new") ~> ThreadOver)

\* the render thread has terminated after completing the one iteration that
\* was under way when the flag was set
C2_Witness ==
    /\ stopped
    /\ rtPc = "done"
    /\ passesAfterStop = 1

(***************************************************************************)
(* The GUI render pass.                                                    *)
(***************************************************************************)
Elems(list) == {list[i] : i \in 1..Len(list)}

\* C3: an element that is expired when a GuiInterface.render pass begins is
\* not drawn in that pass (so neither in the next pass after it expired nor
\* in a later one); an element leaves gui_list only by one removal of it as
\* expired, is removed at most once, and is not in the list again afterwards.
C3_ExpiredNotDrawnRemovedOnce ==
    /\ drawn \cap expiredAtStart = {}
    /\ \A e \in ElemIds :
        /\ removals[e] <= 1
        /\ removals[e] = 1 => e \notin Elems(gui_list) /\ e \in expired
        /\ (e \in created /\ removals[e] = 0) => e \in Elems(gui_list)

\* a pass that began with an expired element has ended with the element
\* removed and another element drawn
C3_Witness ==
    /\ rtPc = "flip"
    /\ \E e \in expiredAtStart : e \in Elems(passStart) /\ removals[e] = 1
    /\ drawn # {}

\* C4: when a GuiInterface.render pass over an undisturbed list has ended,
\* every element the list held when the pass began has been removed if it
\* was expired then, and drawn in this pass if it was not.
C4_PassHandlesEveryElement ==
    (rtPc = "flip" /\ passClean) =>
        \A e \in Elems(passStart) :
            IF e \in expiredAtStart THEN e \notin Elems(gui_list) ELSE e \in drawn

(***************************************************************************)
(* The logic loop.                                                         *)
(***************************************************************************)
\* the process_mouse_event calls an event of the given type is to cause
ExpectedCalls(type) ==
    IF type = "MOUSEBUTTONDOWN" THEN <<TRUE>>
    ELSE IF type = "MOUSEBUTTONUP" THEN <<FALSE>>
    ELSE <<>>

\* C5: the for loop of process_events takes the events of the drained list
\* head first, and the turn that takes an event makes exactly one call
\* process_mouse_event(True) for a MOUSEBUTTONDOWN, exactly one call
\* process_mouse_event(False) for a MOUSEBUTTONUP and no call for any other
\* type; no call is made anywhere else.
C5_MouseRouting ==
    [][/\ (mainPc = "dispatch" /\ batch' # batch) =>
            /\ batch' = Tail(batch)
            /\ calls' = ExpectedCalls(Head(batch))
       /\ calls' # calls => mainPc \in {"dispatch", "process_events"}
       /\ (mainPc = "process_mouse_event" /\ mainPc' = "dispatch") => Len(calls) = 1
      ]_vars

\* the call for a MOUSEBUTTONDOWN is under way with a MOUSEBUTTONUP queued
\* behind it
C5_Witness ==
    /\ mainPc = "process_mouse_event"
    /\ calls = <<TRUE>>
    /\ batch = <<"MOUSEBUTTONUP">>

\* C6: within a tick execute_game_logic is not invoked before process_events
\* has dispatched the whole drained list; at the end of the tick it has been
\* invoked exactly once, and execute_game has been called once if a game
\* controller is set and not at all if game_controller is None.
C6_DrainThenLogicOnce ==
    /\ mainPc \in {"process_events", "dispatch", "process_mouse_event"} =>
            logicCalls = 0 /\ gameCalls = 0
    /\ mainPc = "execute_game_logic" => batch = <<>> /\ logicCalls = 0 /\ gameCalls = 0
    /\ mainPc = "loop_end" =>
            /\ batch = <<>>
            /\ logicCalls = 1
            /\ gameCalls = IF game_controller # None THEN 1 ELSE 0

\* a tick has ended with execute_game called once
C6_Witness ==
    /\ mainPc = "loop_end"
    /\ logicCalls = 1
    /\ gameCalls = 1

(***************************************************************************)
(* The render iteration.                                                   *)
(***************************************************************************)
\* the steps of an iteration in their order
FrameOrder == <<"clear", "objects", "gui", "flip">>

Position(step) == CHOOSE i \in 1..Len(FrameOrder) : FrameOrder[i] = step

\* the render thread moves on from its statement, and not by an exception
Proceeds == rtPc' # rtPc /\ rtPc' # "failed"

\* C7: the steps of a render iteration that no exception ends come in the
\* order clear, objects,
\* gui, flip and the first is clear; objects is done exactly if
\* game_controller is not None when it is tested, gui exactly if
\* gui_interface is not None when it is tested, and whatever the two tests
\* find the iteration goes on to the next step and to the flip.
C7_FrameOrder ==
    /\ [](/\ \A i \in 1..Len(frame) : frame[i] \in Elems(FrameOrder)
          /\ \A i, j \in 1..Len(frame) : i < j => Position(frame[i]) < Position(frame[j])
          /\ frame # <<>> => frame[1] = "clear"
          /\ rtPc \in {"objects", "gui", "gui_render", "flip"} => frame # <<>>)
    /\ [][/\ (rtPc = "render" /\ Proceeds) =>
                frame' = <<"clear">> /\ rtPc' = "objects"
          /\ (rtPc = "objects" /\ Proceeds) =>
                /\ frame' = IF game_controller # None THEN <<"clear", "objects">>
                            ELSE <<"clear">>
                /\ rtPc' = "gui"
          /\ (rtPc = "gui" /\ Proceeds) =>
                /\ frame' = IF gui_interface # None THEN Append(frame, "gui") ELSE frame
                /\ rtPc' = IF gui_interface # None THEN "gui_render" ELSE "flip"
          /\ (rtPc = "gui_render" /\ Proceeds) => rtPc' = "flip" /\ frame' = frame
          /\ (rtPc = "flip" /\ Proceeds) => frame' = Append(frame, "flip")
         ]_vars

\* an iteration with neither a controller nor a GUI interface has cleared
\* the background and presented the frame
C7_Witness ==
    /\ rtPc = "check"
    /\ frame = <<"clear", "flip">>
    /\ game_controller = None
    /\ gui_interface = None

(***************************************************************************)
(* Construction.                                                           *)
(***************************************************************************)
\* a class that overrides every hook is called on a file holding a JSON object
IsObject == implemented = Hooks /\ json_file.kind = "object"

\* the window block and its three members are in the document
WindowComplete == IsObject /\ ({"window"} \cup WindowKeys) \subseteq json_file.doc.keys

\* __init__ has ended with an exception
CtorFailed == mainPc = "raised" /\ ~constructed

WindowFieldsSet ==
    /\ title = Some(json_file.doc.title)
    /\ background_color = Some(json_file.doc.background_color)
    /\ size = Some(json_file.doc.size)

\* C8: construction from a document with window.title, window.background_color
\* and window.size does not fail and leaves title, background_color and size
\* equal to the document's values; load_game_settings_from_json is called
\* only with all three fields set.
C8_WindowFieldsLoaded ==
    /\ WindowComplete => ~CtorFailed
    /\ (WindowComplete /\ constructed) => WindowFieldsSet
    /\ hookCalled => WindowComplete /\ WindowFieldsSet

\* an application has been constructed from a document whose three window
\* values all differ from the built-in ones
C8_Witness ==
    /\ constructed
    /\ hookCalled
    /\ title = Some("Crazy Eights")
    /\ background_color = Some(<<0, 0, 0>>)
    /\ size = Some(<<640, 480>>)

\* C9: for a document without the window key the constructor stops before
\* pygame.init(), set_caption and set_mode and before the RenderThread object
\* is created, and it ends with a KeyError, never with an application.
C9_MissingWindowFailsEarly ==
    (IsObject /\ "window" \notin json_file.doc.keys) =>
        /\ ~pygameInit
        /\ caption = None
        /\ screen = None
        /\ rtPc = "none"
        /\ ~constructed
        /\ \/ mainPc \in {"instantiate", "load_json", "check_none", "load_title"}
           \/ mainPc = "raised" /\ error = "KeyError"

\* the constructor has raised on a document without the window key
C9_Witness ==
    /\ IsObject
    /\ "window" \notin json_file.doc.keys
    /\ CtorFailed
    /\ error = "KeyError"

\* C10 as stated: whenever any required key is absent, construction fails.
C10_AnyMissingKeyFailsConstruction ==
    (IsObject /\ ~(Keys \subseteq json_file.doc.keys)) => ~constructed

\* C10 amended: construction fails (with a KeyError, before the object is
\* complete) whenever window.title, window.background_color, window.size or
\* the window block is absent, and only then for a JSON object; an absent gui
\* block or member does not fail construction but the first access: init_gui
\* for the gui block, show_label and show_button for the members.
C10_MissingKeyFailsAtFirstAccess ==
    /\ (IsObject /\ ~WindowComplete) =>
            /\ ~constructed
            /\ mainPc = "raised" => error = "KeyError"
    /\ WindowComplete => ~CtorFailed
    /\ (constructed /\ mainPc = "raised") =>
            /\ error = "KeyError"
            /\ ~(({"gui"} \cup GuiKeys) \subseteq json_file.doc.keys)
    /\ gui_interface # None => "gui" \in json_file.doc.keys
    /\ created # {} => json_file.doc.keys \cap GuiKeys # {}

\* an application was constructed from a document without the gui block, and
\* init_gui has then raised
C10_Witness ==
    /\ constructed
    /\ "gui" \notin json_file.doc.keys
    /\ mainPc = "raised"

(***************************************************************************)
(* A failure in the render thread.                                         *)
(***************************************************************************)
\* C11: a failure raised in the render thread terminates the whole process,
\* not the render thread alone: once the render thread has been ended by an
\* exception, the logic loop does not go on to another tick with no render
\* thread alive.
C11_RenderFailureEndsProcess ==
    [][rtPc = "failed" => ~(mainPc = "run_game_loop" /\ mainPc' = "process_events")]_vars

(***************************************************************************)
(* The abstract hooks.                                                     *)
(***************************************************************************)
\* C12: an application object whose class leaves any of the three abstract
\* hooks without an override cannot be constructed: the call of the class
\* raises TypeError, no statement of __init__ runs and no hook is invoked;
\* so a hook that is invoked is always an overriding one.
C12_AbstractHooksNeedOverride ==
    /\ implemented # Hooks =>
          /\ mainPc \in {"instantiate", "raised"}
          /\ mainPc = "raised" => error = "TypeError"
          /\ ~constructed /\ ~hookCalled /\ settings_json = None /\ rtPc = "none"
    /\ hookCalled => "load_game_settings_from_json" \in implemented
    /\ mainPc = "build_game_objects" => "build_game_objects" \in implemented
    /\ mainPc = "process_mouse_event" => "process_mouse_event" \in implemented

\* the class overrides two of the three hooks and its call has raised
C12_Witness ==
    /\ Cardinality(implemented) = 2
    /\ mainPc = "raised"
    /\ error = "TypeError"

(***************************************************************************)
(* A null settings document.                                               *)
(***************************************************************************)
\* a class that overrides every hook is called on a file holding JSON null
IsNull == implemented = Hooks /\ json_file.kind = "null"

\* C13: when the settings file parses to null, the constructor ends with the
\* ValueError its own test of the loaded document raises, with no window
\* field loaded, the subclass settings hook not called, pygame not
\* initialised and no window created.
C13_NullDocumentRaisesFirst ==
    /\ [](IsNull =>
            /\ title = None /\ background_color = None /\ size = None
            /\ ~hookCalled
            /\ ~pygameInit /\ caption = None /\ screen = None
            /\ rtPc = "none" /\ ~constructed
            /\ \/ mainPc \in {"instantiate", "load_json", "check_none"}
               \/ mainPc = "raised" /\ error = "ValueError")
    /\ [][(IsNull /\ mainPc' = "raised") => mainPc = "check_none"]_vars

\* the constructor has raised the ValueError on a null document
C13_Witness ==
    /\ IsNull
    /\ settings_json = None
    /\ mainPc = "raised"
    /\ error = "ValueError"

(***************************************************************************)
(* check_mouse against a concurrent render pass.                           *)
(***************************************************************************)
\* the number of g.check_mouse calls the pass made on element e
Forwards(e) == Cardinality({i \in 1..Len(forwarded) : forwarded[i] = e})

\* C14: when a check_mouse pass has ended, every element that was in
\* gui_list from the beginning of the pass to its end has had its
\* check_mouse called exactly once, also when a render pass removed an
\* expired element from the list meanwhile.
C14_CheckMouseReachesEveryElement ==
    (mainPc = "process_mouse_event" /\ cmStart # None /\ cmIdx = 0) =>
        \A e \in Elems(cmStart[1]) \cap Elems(gui_list) : Forwards(e) = 1

(***************************************************************************)
(* QUIT without a started render thread.                                   *)
(***************************************************************************)
\* C15: a QUIT event the main loop processes ends the process in every
\* reachable state, also when run_game_loop runs without start_render_thread
\* having been called: once the stop flag is set, the wait for the render
\* thread does not fail, so the main thread is never ended by an exception
\* on its way to sys.exit().
C15_QuitNeverFails == stopped => mainPc # "raised"

(***************************************************************************)
(* The pacing of the two loops.                                            *)
(***************************************************************************)
\* C16: each loop has its own pacing state: the last tick the clock of the
\* logic loop remembers when the logic loop ticks is a tick of the logic
\* loop (or none yet), and the last tick the clock of the render loop
\* remembers when the render loop ticks is a tick of the render loop (or
\* none yet).
C16_SeparatePacing ==
    /\ mainPc = "run_game_loop" => clock \in {"new", "logic"}
    /\ rtPc = "tick" => clock \in {"new", "render"}

(***************************************************************************)
(* Buttons.                                                                *)
(***************************************************************************)
\* C17: hide_button changes nothing, so a button show_button added stays in
\* gui_list and is drawn on every later render pass unless the button itself
\* becomes expired: when a pass over the GUI has ended, every button that
\* was in gui_list when the pass began and has not expired is still in
\* gui_list and was drawn in that pass.
C17_ButtonDrawnEveryPass ==
    rtPc = "flip" =>
        \A b \in Elems(passStart) \ expired :
            IsButton(b) => b \in Elems(gui_list) /\ b \in drawn

(***************************************************************************)
(* The order of execute().                                                 *)
(***************************************************************************)
\* init_game() has returned: the GUI interface exists and build_game_objects
\* is over
Initialised ==
    /\ gui_interface # None
    /\ mainPc \notin {"idle", "init_gui", "build_game_objects"}

\* C18: in a run through execute() the GUI interface is constructed before
\* build_game_objects is called, and both are over before the render thread
\* is started: whenever the render thread is running or has run,
\* initialisation has finished, and every render pass finds gui_interface
\* set and renders the GUI.
C18_InitialisedBeforeRendering ==
    mode = "execute" =>
        /\ mainPc = "build_game_objects" => gui_interface # None
        /\ rtPc # "new" => Initialised /\ mainPc # "start_render_thread"
        /\ rtPc \in {"gui", "gui_render", "flip"} => HasGui
        /\ rtPc = "flip" => "gui" \in Elems(frame)

\* a render pass of a run through execute() has drawn a GUI element
C18_Witness ==
    /\ mode = "execute"
    /\ rtPc = "flip"
    /\ "gui" \in Elems(frame)
    /\ drawn # {}

(***************************************************************************)
(* What a QUIT cuts off.                                                   *)
(***************************************************************************)
\* C19: the for loop meets a QUIT only as the first event it has not taken
\* yet, so every event before it has been dispatched; from then on the main
\* thread is in join or sys.exit() (or ended), no event of the rest of the
\* batch is taken or dispatched to process_mouse_event, and
\* execute_game_logic is not invoked on that tick or later.
C19_QuitCutsOff ==
    /\ [](stopped =>
            /\ mainPc \in {"join", "exit", "exited", "raised"}
            /\ calls = <<>> /\ logicCalls = 0 /\ gameCalls = 0)
    /\ [][/\ (~stopped /\ stopped') =>
                /\ mainPc = "dispatch" /\ batch # <<>> /\ Head(batch) = "QUIT"
                /\ batch' = Tail(batch)
          /\ stopped =>
                /\ batch' = batch /\ calls' = calls
                /\ logicCalls' = logicCalls /\ gameCalls' = gameCalls
                /\ cmIdx' = cmIdx /\ forwarded' = forwarded]_vars

\* the process has exited on a QUIT with a mouse event of the same batch
\* left behind it
C19_Witness ==
    /\ stopped
    /\ mainPc = "exited"
    /\ batch # <<>>
    /\ Head(batch) \in {"MOUSEBUTTONUP", "MOUSEBUTTONDOWN"}

(***************************************************************************)
(* The stop flag.                                                          *)
(***************************************************************************)
\* C20: stopped is False after construction, it never goes back from True
\* to False, and the only step that changes it is the logic loop's handling
\* of a QUIT event; mouse events, execute_game_logic, render passes and GUI
\* operations leave it alone.
C20_StopFlagMonotonic ==
    /\ ~stopped
    /\ [][/\ stopped => stopped'
          /\ stopped' # stopped =>
                /\ mainPc = "dispatch" /\ batch # <<>> /\ Head(batch) = "QUIT"
                /\ stopped']_vars

\* the flag is set while a render pass over a non-empty gui_list goes on
C20_Witness ==
    /\ stopped
    /\ rtPc = "gui_render"
    /\ gui_list # <<>>
    /\ mainPc = "join"

====
